---- MODULE Spec2Model ----
(***************************************************************************)
(* Model of copernicus_query_app.py: the OData filter builder              *)
(* (build_odata_filter), the paginated fetcher (search_products) and the   *)
(* result normalizer (extract_product_info).                               *)
(*                                                                         *)
(* Python strings are TLA+ strings (built with \o, searched with SubSeq).  *)
(* Python values that may be None or missing from a dict are tagged        *)
(* records, so that truthiness tests are modelled as the code does them.   *)
(***************************************************************************)
EXTENDS Integers, Sequences, FiniteSets, TLC

VARIABLES
  \* build_odata_filter: arguments, result and position
  config_key, bbox, start_date, end_date, tile, odata_filter, fpc,
  \* search_products: arguments, locals, return value and position
  max_products, has_callback, params_top, all_products, next_link,
  page_count, messages, result, pc,
  \* history of the HTTP exchange (what the server was asked and answered)
  request_log, response_links, page_sizes, totals_at_request, failed,
  request_failed,
  \* extract_product_info: argument, return value and position
  products, product_list, npc

filterVars == <<config_key, bbox, start_date, end_date, tile, odata_filter, fpc>>
fetchVars == <<max_products, has_callback, params_top, all_products, next_link,
               page_count, messages, result, pc,
               request_log, response_links, page_sizes, totals_at_request, failed,
               request_failed>>
normVars == <<products, product_list, npc>>
vars == <<filterVars, fetchVars, normVars>>

(***************************************************************************)
(* Python values                                                           *)
(***************************************************************************)
\* a str, None, or a key that is missing from its dict
PyStr(s) == [tag |-> "str", val |-> s]
PyNone == [tag |-> "None", val |-> ""]
Missing == [tag |-> "missing", val |-> ""]

\* bool(x) of a str or None: the empty string and None are falsy
Truthy(x) == x.tag = "str" /\ x.val # ""

\* str(x) as an f-string interpolates it
FormatStr(x) == IF x.tag = "str" THEN x.val ELSE "None"

\* an int or None
PyInt(n) == [tag |-> "int", n |-> n]
IntNone == [tag |-> "None", n |-> 0]

\* str(float) of an integer-valued float: 11.0 -> "11.0"
FormatFloat(n) == ToString(n) \o ".0"

\* the indices at which sub occurs in s
Hits(s, sub) ==
  {i \in 1..(Len(s) - Len(sub) + 1) : SubSeq(s, i, i + Len(sub) - 1) = sub}

\* first index at or after i at which sub occurs in s, 0 if there is none
FindFrom(s, sub, i) ==
  LET later == {h \in Hits(s, sub) : h >= i}
  IN IF later = {} THEN 0 ELSE CHOOSE h \in later : \A g \in later : h <= g

Contains(s, sub) == FindFrom(s, sub, 1) # 0

\* number of (possibly overlapping) occurrences of sub in s
Occurrences(s, sub) == Cardinality(Hits(s, sub))

(***************************************************************************)
(* PRODUCT_CONFIGS and build_odata_filter                                  *)
(***************************************************************************)
PRODUCT_CONFIGS ==
  [sentinel2_l2a |->
     [name |-> "Sentinel-2 L2A", collection |-> "SENTINEL-2",
      product_type |-> "S2MSI2A", instrument |-> "MSI", requires_tile |-> TRUE],
   sentinel3_olci_l1_efr |->
     [name |-> "Sentinel-3 OLCI L1 EFR", collection |-> "SENTINEL-3",
      product_type |-> "OL_1_EFR___", instrument |-> "OLCI", requires_tile |-> FALSE],
   sentinel3_slstr_l1_rbt |->
     [name |-> "Sentinel-3 SLSTR L1 RBT", collection |-> "SENTINEL-3",
      product_type |-> "SL_1_RBT___", instrument |-> "SLSTR", requires_tile |-> FALSE],
   sentinel1_grd |->
     [name |-> "Sentinel-1 GRD", collection |-> "SENTINEL-1",
      product_type |-> "GRD", instrument |-> "SAR", requires_tile |-> FALSE]]

collection_filter(config) == "Collection/Name eq '" \o config.collection \o "'"

bbox_polygon(b) ==
  "POLYGON((" \o
  FormatFloat(b.west) \o " " \o FormatFloat(b.south) \o "," \o
  FormatFloat(b.east) \o " " \o FormatFloat(b.south) \o "," \o
  FormatFloat(b.east) \o " " \o FormatFloat(b.north) \o "," \o
  FormatFloat(b.west) \o " " \o FormatFloat(b.north) \o "," \o
  FormatFloat(b.west) \o " " \o FormatFloat(b.south) \o
  "))"

spatial_filter(b) ==
  "OData.CSC.Intersects(area=geography'SRID=4326;" \o bbox_polygon(b) \o "')"

type_filter(config) ==
  "Attributes/OData.CSC.StringAttribute/any(" \o
  "att:att/Name eq 'productType' and " \o
  "att/OData.CSC.StringAttribute/Value eq '" \o config.product_type \o "'" \o
  ")"

tile_filter(t) == "contains(Name,'" \o FormatStr(t) \o "')"

instrument_filter(config) ==
  "Attributes/OData.CSC.StringAttribute/any(" \o
  "att:att/Name eq 'instrumentShortName' and " \o
  "att/OData.CSC.StringAttribute/Value eq '" \o config.instrument \o "'" \o
  ")"

name_filter(config) == "contains(Name,'" \o config.product_type \o "')"

temporal_filter(sd, ed) ==
  "ContentDate/Start ge " \o sd \o "T00:00:00.000Z" \o
  " and ContentDate/Start le " \o ed \o "T23:59:59.999Z"

\* a plausible slip: the tile clause is appended whenever a tile is given,
\* whatever the collection
collection_specific_filter_anytile(config, b, t) ==
  IF config.collection = "SENTINEL-2"
  THEN IF Truthy(t)
       THEN collection_filter(config) \o " and " \o type_filter(config) \o " and " \o
            tile_filter(t) \o " and " \o spatial_filter(b)
       ELSE collection_filter(config) \o " and " \o type_filter(config) \o " and " \o
            spatial_filter(b)
  ELSE IF Truthy(t)
       THEN collection_filter(config) \o " and " \o instrument_filter(config) \o " and " \o
            name_filter(config) \o " and " \o tile_filter(t) \o " and " \o spatial_filter(b)
       ELSE collection_filter(config) \o " and " \o instrument_filter(config) \o " and " \o
            name_filter(config) \o " and " \o spatial_filter(b)

\* a plausible slip: the spatial clause is put before the type clause
collection_specific_filter_reordered(config, b, t) ==
  IF config.collection = "SENTINEL-2"
  THEN IF Truthy(t)
       THEN collection_filter(config) \o " and " \o spatial_filter(b) \o " and " \o
            type_filter(config) \o " and " \o tile_filter(t)
       ELSE collection_filter(config) \o " and " \o spatial_filter(b) \o " and " \o
            type_filter(config)
  ELSE collection_filter(config) \o " and " \o instrument_filter(config) \o " and " \o
       name_filter(config) \o " and " \o spatial_filter(b)

\* the value of odata_filter at the end of the if/else on the collection
collection_specific_filter(config, b, t) ==
  IF config.collection = "SENTINEL-2"
  THEN IF Truthy(t)
       THEN collection_filter(config) \o " and " \o type_filter(config) \o " and " \o
            tile_filter(t) \o " and " \o spatial_filter(b)
       ELSE collection_filter(config) \o " and " \o type_filter(config) \o " and " \o
            spatial_filter(b)
  ELSE collection_filter(config) \o " and " \o instrument_filter(config) \o " and " \o
       name_filter(config) \o " and " \o spatial_filter(b)

build_odata_filter(config, b, sd, ed, t) ==
  collection_specific_filter(config, b, t) \o " and " \o temporal_filter(sd, ed)

\* inputs of the filter builder
ConfigKeys == DOMAIN PRODUCT_CONFIGS
BBoxes ==
  { [west |-> 11, south |-> 46, east |-> 12, north |-> 47],
    [west |-> -3, south |-> 40, east |-> 2, north |-> 43],
    [west |-> 0, south |-> -1, east |-> 1, north |-> 0] }
DatePairs ==
  { <<"2020-01-01", "2020-01-31">>, <<"2021-06-15", "2021-06-15">> }
Tiles == { PyNone, PyStr(""), PyStr("T32TPS"), PyStr("T33UUP") }

NoFilter == ""

(***************************************************************************)
(* Idle values of each component, used by the other components' specs      *)
(***************************************************************************)
FilterIdle ==
  /\ config_key = "sentinel2_l2a"
  /\ bbox = [west |-> 11, south |-> 46, east |-> 12, north |-> 47]
  /\ start_date = "2020-01-01"
  /\ end_date = "2020-01-31"
  /\ tile = PyNone
  /\ odata_filter = NoFilter
  /\ fpc = "idle"

FetchIdle ==
  /\ max_products = IntNone
  /\ has_callback = FALSE
  /\ params_top = 0
  /\ all_products = <<>>
  /\ next_link = PyNone
  /\ page_count = 0
  /\ messages = <<>>
  /\ result = <<>>
  /\ pc = "idle"
  /\ request_log = <<>>
  /\ response_links = <<>>
  /\ page_sizes = <<>>
  /\ totals_at_request = <<>>
  /\ failed = FALSE
  /\ request_failed = FALSE

NormIdle ==
  /\ products = <<>>
  /\ product_list = [status |-> "none", value |-> <<>>]
  /\ npc = "idle"

(***************************************************************************)
(* Specification of the filter builder                                     *)
(***************************************************************************)
InitFilter ==
  /\ config_key \in ConfigKeys
  /\ bbox \in BBoxes
  /\ \E d \in DatePairs : start_date = d[1] /\ end_date = d[2]
  /\ tile \in Tiles
  /\ odata_filter = NoFilter
  /\ fpc = "input"
  /\ FetchIdle
  /\ NormIdle

BuildFilter ==
  /\ fpc = "input"
  /\ odata_filter' = build_odata_filter(PRODUCT_CONFIGS[config_key], bbox,
                                        start_date, end_date, tile)
  /\ fpc' = "built"
  /\ UNCHANGED <<config_key, bbox, start_date, end_date, tile, fetchVars, normVars>>

NextFilter == BuildFilter

SpecFilter == InitFilter /\ [][NextFilter]_vars

(***************************************************************************)
(* search_products                                                         *)
(***************************************************************************)
ODATA_API_URL == "https://catalogue.dataspace.copernicus.eu/odata/v1/Products"

\* the page size the code never asks the server to exceed
TopLimit == 1000

\* bounds of the fetcher's environment
MaxCount == 3       \* largest max_products tried
MaxPageLen == 2     \* largest number of records in one response
MaxRequests == 3    \* the server's chain of pages ends at this request

Links == {"https://catalogue/next?a", "https://catalogue/next?b"}
ExceptionTexts == {"Connection refused", "Read timed out",
                   "500 Server Error", "Expecting value: line 1 column 1 (char 0)"}

Min(a, b) == IF a < b THEN a ELSE b
Max(a, b) == IF a > b THEN a ELSE b

RECURSIVE Sum(_)
Sum(s) == IF s = <<>> THEN 0 ELSE s[1] + Sum(Tail(s))

\* bool(max_products): None and 0 are falsy
IntTruthy(k) == k.tag = "int" /\ k.n # 0

\* "$top": min(max_products, 1000) if max_products else 1000
TopParam(k) == IF IntTruthy(k) THEN Min(k.n, TopLimit) ELSE TopLimit

\* products[:remaining], as Python slices
Slice(prods, r) ==
  IF r >= 0 THEN SubSeq(prods, 1, Min(r, Len(prods)))
  ELSE SubSeq(prods, 1, Max(0, Len(prods) + r))

\* a plausible slip: the remaining allowance is not subtracted
Truncate_nosubtract(prods, k, n) ==
  IF IntTruthy(k) THEN Slice(prods, k.n) ELSE prods

\* if max_products: remaining = max_products - len(all_products);
\*                  products = products[:remaining]
Truncate(prods, k, n) ==
  IF IntTruthy(k) THEN Slice(prods, k.n - n) ELSE prods

\* a plausible slip: <= instead of <
LoopCondition_le(link, k, n) ==
  Truthy(link) /\ (k.tag = "None" \/ n <= k.n)

\* while next_link and (max_products is None or len(all_products) < max_products)
LoopCondition(link, k, n) ==
  Truthy(link) /\ (k.tag = "None" \/ n < k.n)

InitialMessage(n) == "Found " \o ToString(n) \o " products in initial query"

\* a plausible slip: the page is announced before the counter is incremented
PageMessage_stale(p, total) ==
  "Fetching page " \o ToString(p - 1) \o "... (total so far: " \o ToString(total) \o ")"

PageMessage(p, total) ==
  "Fetching page " \o ToString(p) \o "... (total so far: " \o ToString(total) \o ")"

ErrorMessage(text) == "Error: " \o text

\* if progress_callback: progress_callback(msg): the calls made to the sink,
\* in order (a call that raises was made too)
Notify(log, cb, msg) == IF cb THEN Append(log, msg) ELSE log

\* what can be raised inside the try: `except Exception` catches an Exception
\* and lets any other BaseException (KeyboardInterrupt, SystemExit, ...) pass
ExceptionKinds == {"Exception", "BaseException"}

\* except Exception as e
Caught(kind) == kind = "Exception"

\* what a call of the sink can do; without a sink no call is made
SinkOutcomes == IF has_callback THEN {"returns"} \cup ExceptionKinds ELSE {"returns"}

\* str(e) of an exception the sink raises
SinkExceptionTexts == {"sink failed"}

\* return []
ExceptReturn(acc) == <<>>

\* the records of a response of n records: the server's records are distinct,
\* numbered in the order it sends them
PageRecords(sent, n) == [i \in 1..n |-> sent + i]

\* everything the server has sent so far, in order
Served == [i \in 1..Sum(page_sizes) |-> i]

\* next links a response to the current request may carry
ResponseLinks ==
  IF Len(request_log) < MaxRequests
  THEN {PyNone} \cup {PyStr(l) : l \in Links}
  ELSE {PyNone}

InitFetch ==
  /\ max_products \in {IntNone} \cup {PyInt(k) : k \in 1..MaxCount}
  /\ has_callback \in BOOLEAN
  /\ params_top = 0
  /\ all_products = <<>>
  /\ next_link = PyNone
  /\ page_count = 0
  /\ messages = <<>>
  /\ result = <<>>
  /\ pc = "start"
  /\ request_log = <<>>
  /\ response_links = <<>>
  /\ page_sizes = <<>>
  /\ totals_at_request = <<>>
  /\ failed = FALSE
  /\ request_failed = FALSE
  /\ FilterIdle
  /\ NormIdle

\* except Exception as e: the handler reports str(e) to the sink and returns
\* []; its call of the sink is outside any try, so a sink that raises there
\* makes search_products raise
Handler(log, text, acc) ==
  /\ messages' = Notify(log, has_callback, ErrorMessage(text))
  /\ failed' = TRUE
  /\ \E outcome \in SinkOutcomes :
       IF outcome = "returns"
       THEN pc' = "returned" /\ result' = ExceptReturn(acc)
       ELSE pc' = "raised" /\ result' = result

\* an exception that `except Exception` does not catch leaves search_products
\* at once: the handler does not run, nothing is returned
Uncaught(log) ==
  /\ messages' = log
  /\ failed' = failed
  /\ pc' = "raised"
  /\ result' = result

\* an exception of the given kind is raised inside the try
Raise(kind, log, text, acc) ==
  IF Caught(kind) THEN Handler(log, text, acc) ELSE Uncaught(log)

\* params = {...}; all_products = []; requests.get(ODATA_API_URL, params=params)
FirstRequest ==
  /\ pc = "start"
  /\ params_top' = TopParam(max_products)
  /\ all_products' = <<>>
  /\ request_log' = Append(request_log, ODATA_API_URL)
  /\ pc' = "first_get"
  /\ UNCHANGED <<max_products, has_callback, next_link, page_count, messages, result,
                 response_links, page_sizes, totals_at_request, failed, request_failed,
                 filterVars, normVars>>

\* the first response arrives and parses, and the sink takes the message
FirstResponse ==
  /\ pc = "first_get"
  /\ \E n \in 0..MaxPageLen, link \in ResponseLinks :
       LET page == PageRecords(Sum(page_sizes), n) IN
       /\ all_products' = all_products \o page
       /\ messages' = Notify(messages, has_callback, InitialMessage(Len(page)))
       /\ next_link' = link
       /\ page_count' = 1
       /\ response_links' = Append(response_links, link)
       /\ page_sizes' = Append(page_sizes, n)
  /\ pc' = "loop"
  /\ UNCHANGED <<max_products, has_callback, params_top, result, request_log,
                 totals_at_request, failed, request_failed, filterVars, normVars>>

\* the first response arrives and parses, and the sink raises on the message:
\* next_link and page_count are not assigned; the handler runs if it catches
\* the exception
FirstResponseSinkRaises ==
  /\ pc = "first_get"
  /\ has_callback
  /\ \E n \in 0..MaxPageLen, link \in ResponseLinks, text \in SinkExceptionTexts,
        kind \in ExceptionKinds :
       LET page == PageRecords(Sum(page_sizes), n) IN
       /\ all_products' = all_products \o page
       /\ response_links' = Append(response_links, link)
       /\ page_sizes' = Append(page_sizes, n)
       /\ Raise(kind, Append(messages, InitialMessage(Len(page))), text,
                all_products \o page)
  /\ UNCHANGED <<max_products, has_callback, params_top, next_link, page_count,
                 request_log, totals_at_request, request_failed, filterVars, normVars>>

\* an exception of requests.get, raise_for_status, json or get
RequestFails ==
  /\ pc \in {"first_get", "page_get"}
  /\ \E text \in ExceptionTexts, kind \in ExceptionKinds :
       Raise(kind, messages, text, all_products)
  /\ request_failed' = TRUE
  /\ UNCHANGED <<max_products, has_callback, params_top, all_products, next_link,
                 page_count, request_log, response_links, page_sizes,
                 totals_at_request, filterVars, normVars>>

\* the loop test succeeds: count the page, announce it, GET the next link
LoopIter ==
  /\ pc = "loop"
  /\ LoopCondition(next_link, max_products, Len(all_products))
  /\ page_count' = page_count + 1
  /\ messages' = Notify(messages, has_callback,
                        PageMessage(page_count', Len(all_products)))
  /\ request_log' = Append(request_log, next_link.val)
  /\ totals_at_request' = Append(totals_at_request, Len(all_products))
  /\ pc' = "page_get"
  /\ UNCHANGED <<max_products, has_callback, params_top, all_products, next_link,
                 result, response_links, page_sizes, failed, request_failed,
                 filterVars, normVars>>

\* the loop test succeeds and the sink raises on the announcement: no GET is
\* issued; the handler runs if it catches the exception
LoopIterSinkRaises ==
  /\ pc = "loop"
  /\ has_callback
  /\ LoopCondition(next_link, max_products, Len(all_products))
  /\ page_count' = page_count + 1
  /\ \E text \in SinkExceptionTexts, kind \in ExceptionKinds :
       Raise(kind, Append(messages, PageMessage(page_count', Len(all_products))),
             text, all_products)
  /\ UNCHANGED <<max_products, has_callback, params_top, all_products, next_link,
                 request_log, response_links, page_sizes, totals_at_request,
                 request_failed, filterVars, normVars>>

\* the loop test fails: return all_products
LoopExit ==
  /\ pc = "loop"
  /\ ~LoopCondition(next_link, max_products, Len(all_products))
  /\ result' = all_products
  /\ pc' = "returned"
  /\ UNCHANGED <<max_products, has_callback, params_top, all_products, next_link,
                 page_count, messages, request_log, response_links, page_sizes,
                 totals_at_request, failed, request_failed, filterVars, normVars>>

\* a follow-up response arrives and parses
PageResponse ==
  /\ pc = "page_get"
  /\ \E n \in 0..MaxPageLen, link \in ResponseLinks :
       LET page == PageRecords(Sum(page_sizes), n) IN
       /\ all_products' = all_products \o Truncate(page, max_products, Len(all_products))
       /\ next_link' = link
       /\ response_links' = Append(response_links, link)
       /\ page_sizes' = Append(page_sizes, n)
  /\ pc' = "loop"
  /\ UNCHANGED <<max_products, has_callback, params_top, page_count, messages, result,
                 request_log, totals_at_request, failed, request_failed,
                 filterVars, normVars>>

Next ==
  \/ FirstRequest \/ FirstResponse \/ FirstResponseSinkRaises \/ RequestFails
  \/ LoopIter \/ LoopIterSinkRaises \/ LoopExit \/ PageResponse

Spec == InitFetch /\ [][Next]_vars

\* the interpreter runs the call to completion, and every request ends in a
\* response or an exception (at the latest the 120 s timeout)
FairSpec == Spec /\ WF_vars(Next)

(***************************************************************************)
(* extract_product_info                                                    *)
(*                                                                         *)
(* A raw product is [Name, Start, Attributes, S3Path]: Start stands for    *)
(* ContentDate.Start, Attributes is [present, items], and a field that the *)
(* JSON record lacks is Missing.  The summary's online and size fields     *)
(* are passed through by the code and are left out.                        *)
(***************************************************************************)
CharAt(s, i) == SubSeq(s, i, i)

DigitChars == {"0", "1", "2", "3", "4", "5", "6", "7", "8", "9"}

DigitVal(c) ==
  CASE c = "0" -> 0 [] c = "1" -> 1 [] c = "2" -> 2 [] c = "3" -> 3 [] c = "4" -> 4
    [] c = "5" -> 5 [] c = "6" -> 6 [] c = "7" -> 7 [] c = "8" -> 8 [] c = "9" -> 9

IsDigits(s) == \A i \in 1..Len(s) : CharAt(s, i) \in DigitChars

RECURSIVE ToInt(_)
ToInt(s) ==
  IF Len(s) = 0 THEN 0
  ELSE ToInt(SubSeq(s, 1, Len(s) - 1)) * 10 + DigitVal(CharAt(s, Len(s)))

\* start_str.replace('Z', '+00:00')
RECURSIVE ReplaceZ(_)
ReplaceZ(s) ==
  IF Len(s) = 0 THEN s
  ELSE (IF CharAt(s, 1) = "Z" THEN "+00:00" ELSE CharAt(s, 1))
       \o ReplaceZ(SubSeq(s, 2, Len(s)))

IsLeap(y) == y % 4 = 0 /\ (y % 100 # 0 \/ y % 400 = 0)

DaysInMonth(y, m) ==
  IF m = 2 THEN (IF IsLeap(y) THEN 29 ELSE 28)
  ELSE IF m \in {4, 6, 9, 11} THEN 30 ELSE 31

RECURSIVE DaysBeforeMonth(_, _)
DaysBeforeMonth(y, m) ==
  IF m = 1 THEN 0 ELSE DaysBeforeMonth(y, m - 1) + DaysInMonth(y, m - 1)

DaysBeforeYear(y) ==
  (y - 1) * 365 + (y - 1) \div 4 - (y - 1) \div 100 + (y - 1) \div 400

\* datetime.toordinal(): day 1 is 0001-01-01
Ordinal(y, m, d) == DaysBeforeYear(y) + DaysBeforeMonth(y, m) + d

ParseError == [ok |-> FALSE, aware |-> FALSE, key |-> <<0, 0, 0>>]

\* the character at 0-based index i, "" (the terminating NUL) past the end
Ch(s, i) == IF i >= 0 /\ i < Len(s) THEN SubSeq(s, i + 1, i + 1) ELSE ""

IsDigit(c) == c \in DigitChars

\* parse_digits: the n characters from index i are digits / their value
DigitsAt(s, i, n) == \A k \in 0..(n - 1) : IsDigit(Ch(s, i + k))
NumAt(s, i, n) == ToInt(SubSeq(s, i + 1, i + n))

\* the first index from i on that holds no digit
SkipDigits(s, i) ==
  CHOOSE j \in i..Max(i, Len(s)) :
    ~IsDigit(Ch(s, j)) /\ \A k \in i..(j - 1) : IsDigit(Ch(s, k))

RECURSIVE Pow10(_)
Pow10(k) == IF k = 0 THEN 1 ELSE 10 * Pow10(k - 1)

\* _find_isoformat_datetime_separator: the length of the date part of a
\* string of at least 7 characters, -1 if there is none
SeparatorLocation(s) ==
  IF Len(s) = 7 THEN 7
  ELSE IF Ch(s, 4) = "-"
       THEN IF Ch(s, 5) = "W"
            THEN IF Len(s) > 8 /\ Ch(s, 8) = "-"
                 THEN IF Len(s) = 9 THEN -1
                      ELSE IF Len(s) > 10 /\ IsDigit(Ch(s, 10)) THEN 8
                      ELSE 10
                 ELSE 8
            ELSE 10
  ELSE IF Ch(s, 4) = "W"
       THEN LET idx == SkipDigits(s, 7)
            IN IF idx < 9 THEN idx ELSE IF idx % 2 = 0 THEN 7 ELSE 8
  ELSE 8

\* the ordinal of the Monday of ISO week 1 of year y
Week1Monday(y) ==
  LET first_day == Ordinal(y, 1, 1)
      first_weekday == (first_day + 6) % 7
  IN IF first_weekday > 3 THEN first_day - first_weekday + 7
     ELSE first_day - first_weekday

\* ISO years have 53 weeks when they start on a Thursday, or on a Wednesday
\* and are leap years
WeekOk(y, w) ==
  \/ w \in 1..52
  \/ /\ w = 53
     /\ LET first_weekday == (Ordinal(y, 1, 1) + 6) % 7
        IN first_weekday = 3 \/ (first_weekday = 2 /\ IsLeap(y))

BadDate == [ok |-> FALSE, ord |-> 0]

\* parse_isoformat_date with the range checks of the datetime constructor:
\* YYYY-MM-DD, YYYYMMDD, YYYY-Www[-D], YYYYWww[D]
ParseDate(s, loc) ==
  IF ~DigitsAt(s, 0, 4) THEN BadDate
  ELSE
    LET year == NumAt(s, 0, 4)
        sep == IF Ch(s, 4) = "-" THEN 1 ELSE 0
        p == 4 + sep
    IN IF Ch(s, p) = "W"
       THEN IF ~DigitsAt(s, p + 1, 2) THEN BadDate
            ELSE
              LET week == NumAt(s, p + 1, 2)
                  q == p + 3
                  has_day == q < loc
              IN IF has_day /\ sep = 1 /\ Ch(s, q) # "-" THEN BadDate
                 ELSE IF has_day /\ ~DigitsAt(s, q + sep, 1) THEN BadDate
                 ELSE
                   LET dayno == IF has_day THEN NumAt(s, q + sep, 1) ELSE 1
                   IN IF year < 1 \/ ~WeekOk(year, week) \/ dayno \notin 1..7
                      THEN BadDate
                      ELSE
                        LET ord == Week1Monday(year) + (week - 1) * 7 + dayno - 1
                        IN IF ord < 1 \/ ord > Ordinal(9999, 12, 31) THEN BadDate
                           ELSE [ok |-> TRUE, ord |-> ord]
       ELSE IF ~DigitsAt(s, p, 2) THEN BadDate
       ELSE IF sep = 1 /\ Ch(s, p + 2) # "-" THEN BadDate
       ELSE IF ~DigitsAt(s, p + 2 + sep, 2) THEN BadDate
       ELSE
         LET month == NumAt(s, p, 2)
             day == NumAt(s, p + 2 + sep, 2)
         IN IF year < 1 \/ month \notin 1..12 THEN BadDate
            ELSE IF day \notin 1..DaysInMonth(year, month) THEN BadDate
            ELSE [ok |-> TRUE, ord |-> Ordinal(year, month, day)]

\* result of parse_hh_mm_ss_ff: rv is 0 at the end of the string, 1 when
\* characters are left, -1 on a parse error; vals is <<HH, MM, SS, micros>>
BadClock == [rv |-> -1, vals |-> <<0, 0, 0, 0>>]

\* the fraction: at most 6 digits are read, further digits are skipped
Fraction(s, end, p, vals) ==
  LET n == Min(6, end - p)
  IN IF ~DigitsAt(s, p, n) THEN BadClock
     ELSE [rv |-> IF Ch(s, SkipDigits(s, p + n)) # "" THEN 1 ELSE 0,
           vals |-> [vals EXCEPT ![4] = NumAt(s, p, n) * Pow10(6 - n)]]

\* the loop over HH[:?MM[:?SS]] from index p, component i of 0..2
RECURSIVE ClockLoop(_, _, _, _, _, _)
ClockLoop(s, end, i, p, has_sep, vals) ==
  IF ~DigitsAt(s, p, 2) THEN BadClock
  ELSE
    LET c == Ch(s, p + 2)
        next == p + 3
        sep == IF i = 0 THEN c = ":" ELSE has_sep
        vals2 == [vals EXCEPT ![i + 1] = NumAt(s, p, 2)]
    IN IF next >= end THEN [rv |-> IF c # "" THEN 1 ELSE 0, vals |-> vals2]
       ELSE IF sep /\ c = ":"
            THEN IF i < 2 THEN ClockLoop(s, end, i + 1, next, sep, vals2)
                 ELSE Fraction(s, end, next, vals2)
       ELSE IF c \in {".", ","} THEN Fraction(s, end, next, vals2)
       ELSE IF ~sep
            THEN IF i < 2 THEN ClockLoop(s, end, i + 1, next - 1, sep, vals2)
                 ELSE Fraction(s, end, next - 1, vals2)
       ELSE BadClock

parse_hh_mm_ss_ff(s, start, end) == ClockLoop(s, end, 0, start, TRUE, <<0, 0, 0, 0>>)

\* index of the first Z, + or - from start on, Len(s) if there is none
ZonePos(s, start) ==
  LET found == {i \in start..(Len(s) - 1) : Ch(s, i) \in {"Z", "+", "-"}}
  IN IF found = {} THEN Len(s) ELSE CHOOSE i \in found : \A j \in found : i <= j

\* the instant <<day, second of day, microsecond>> that is secs seconds and
\* us microseconds after midnight of day, normalized
Instant(day, secs, us) ==
  LET s1 == IF us < 0 THEN secs - 1 ELSE IF us >= 1000000 THEN secs + 1 ELSE secs
      u1 == IF us < 0 THEN us + 1000000 ELSE IF us >= 1000000 THEN us - 1000000 ELSE us
  IN IF s1 < 0 THEN <<day - 1, s1 + 86400, u1>>
     ELSE IF s1 >= 86400 THEN <<day + 1, s1 - 86400, u1>>
     ELSE <<day, s1, u1>>

ClockRangeOk(vals) == vals[1] < 24 /\ vals[2] < 60 /\ vals[3] < 60
ClockSeconds(vals) == vals[1] * 3600 + vals[2] * 60 + vals[3]

\* parse_isoformat_time from index start, with the date's ordinal: a naive
\* datetime, or an aware one whose key is the instant in UTC
ParseTime(s, start, ord) ==
  IF start >= Len(s) THEN ParseError
  ELSE
    LET tz == ZonePos(s, start)
        clock == parse_hh_mm_ss_ff(s, start, tz)
    IN IF clock.rv = -1 \/ ~ClockRangeOk(clock.vals) THEN ParseError
       ELSE IF tz = Len(s)
            THEN IF clock.rv = 1 THEN ParseError
                 ELSE [ok |-> TRUE, aware |-> FALSE,
                       key |-> <<ord, ClockSeconds(clock.vals), clock.vals[4]>>]
       ELSE IF Ch(s, tz) = "Z"
            THEN IF tz + 1 # Len(s) THEN ParseError
                 ELSE [ok |-> TRUE, aware |-> TRUE,
                       key |-> <<ord, ClockSeconds(clock.vals), clock.vals[4]>>]
       ELSE
         LET zone == parse_hh_mm_ss_ff(s, tz + 1, Len(s))
             sign == IF Ch(s, tz) = "-" THEN -1 ELSE 1
         IN IF zone.rv # 0 THEN ParseError
            \* timezone(): the offset is strictly between -24 h and 24 h
            ELSE IF ClockSeconds(zone.vals) >= 86400 THEN ParseError
            ELSE [ok |-> TRUE, aware |-> TRUE,
                  key |-> Instant(ord,
                                  ClockSeconds(clock.vals) - sign * ClockSeconds(zone.vals),
                                  \* an offset of 0 whole seconds is UTC
                                  IF ClockSeconds(zone.vals) = 0 THEN clock.vals[4]
                                  ELSE clock.vals[4] - sign * zone.vals[4])]

\* datetime.fromisoformat(s) as CPython 3.11 and later parse it
fromisoformat(s) ==
  IF Len(s) < 7 THEN ParseError
  ELSE
    LET loc == SeparatorLocation(s)
    IN IF loc < 0 THEN ParseError
       ELSE
         LET d == ParseDate(s, loc)
         IN IF ~d.ok THEN ParseError
            ELSE IF Len(s) > loc THEN ParseTime(s, loc + 1, d.ord)
            ELSE [ok |-> TRUE, aware |-> FALSE, key |-> <<d.ord, 0, 0>>]

\* dict.get(key, default)
Get(field, default) == IF field.tag = "missing" THEN default ELSE field

\* an acquisition_date: None or a datetime
NoDate == [isNone |-> TRUE, aware |-> FALSE, key |-> <<0, 0, 0>>]
DateOf(parsed) == [isNone |-> FALSE, aware |-> parsed.aware, key |-> parsed.key]

\* start_str = content_date.get('Start', '')
StartStr(product) == Get(product.Start, PyStr(""))

\* fromisoformat raises ValueError for this record
RaisesValueError(product) ==
  Truthy(StartStr(product)) /\ ~fromisoformat(ReplaceZ(StartStr(product).val)).ok

\* if start_str: fromisoformat(...) else: None
acquisition_date(product) ==
  IF Truthy(StartStr(product))
  THEN DateOf(fromisoformat(ReplaceZ(StartStr(product).val)))
  ELSE NoDate

\* the first attribute named S3Path: 0 if there is none
RECURSIVE FirstS3Path(_, _)
FirstS3Path(items, i) ==
  IF i > Len(items) THEN 0
  ELSE IF Get(items[i].Name, PyNone) = PyStr("S3Path") THEN i
  ELSE FirstS3Path(items, i + 1)

\* the for loop over product['Attributes']: s3_path after it
AttributePath(product) ==
  IF product.Attributes.present /\ product.Attributes.items # <<>>
  THEN LET i == FirstS3Path(product.Attributes.items, 1)
       IN IF i = 0 THEN PyNone ELSE Get(product.Attributes.items[i].Value, PyNone)
  ELSE PyNone

\* a plausible slip: the top-level field is used only when no value was set
S3Path_isnone(product) ==
  IF AttributePath(product).tag = "None" /\ product.S3Path.tag # "missing"
  THEN product.S3Path
  ELSE AttributePath(product)

\* if not s3_path and 'S3Path' in product: s3_path = product['S3Path']
S3Path(product) ==
  IF ~Truthy(AttributePath(product)) /\ product.S3Path.tag # "missing"
  THEN product.S3Path
  ELSE AttributePath(product)

Summary(product) ==
  [product_name |-> Get(product.Name, PyStr("")),
   acquisition_date |-> acquisition_date(product),
   datetime |-> StartStr(product),
   s3_path |-> S3Path(product)]

\* datetime.min, a naive datetime
DatetimeMin == [isNone |-> FALSE, aware |-> FALSE, key |-> <<1, 0, 0>>]

\* key=lambda x: x['acquisition_date'] if x['acquisition_date'] else datetime.min
SortKey(x) == IF x.acquisition_date.isNone THEN DatetimeMin ELSE x.acquisition_date

\* a < b of two datetimes of the same awareness
Less(a, b) ==
  \/ a.key[1] < b.key[1]
  \/ a.key[1] = b.key[1] /\ a.key[2] < b.key[2]
  \/ a.key[1] = b.key[1] /\ a.key[2] = b.key[2] /\ a.key[3] < b.key[3]

\* comparing a naive with an aware datetime raises TypeError; a sort compares
\* across any two groups of its keys, so it raises when both kinds are present
SortRaisesTypeError(list) ==
  \E i, j \in 1..Len(list) : SortKey(list[i]).aware # SortKey(list[j]).aware

\* insert x after the last element that is not greater: the sort is stable
RECURSIVE Insert(_, _)
Insert(sorted, x) ==
  IF sorted = <<>> THEN <<x>>
  ELSE IF Less(SortKey(x), SortKey(sorted[Len(sorted)]))
       THEN Append(Insert(SubSeq(sorted, 1, Len(sorted) - 1), x), sorted[Len(sorted)])
       ELSE Append(sorted, x)

RECURSIVE StableSort(_)
StableSort(list) ==
  IF list = <<>> THEN <<>>
  ELSE Insert(StableSort(SubSeq(list, 1, Len(list) - 1)), list[Len(list)])

\* the return value, or the exception that leaves the function
extract_product_info(prods) ==
  IF \E i \in 1..Len(prods) : RaisesValueError(prods[i])
  THEN [status |-> "ValueError", value |-> <<>>]
  ELSE LET list == [i \in 1..Len(prods) |-> Summary(prods[i])]
       IN IF SortRaisesTypeError(list)
          THEN [status |-> "TypeError", value |-> <<>>]
          ELSE [status |-> "ok", value |-> StableSort(list)]

\* inputs of the normalizer
MaxRecords == 2

NoAttributes == [present |-> FALSE, items |-> <<>>]
AttributeList(items) == [present |-> TRUE, items |-> items]
Attr(name, value) == [Name |-> PyStr(name), Value |-> value]

StartValues ==
  { Missing, PyStr(""), PyStr("2020-01-01T00:00:00.000Z"),
    PyStr("2019-06-30T23:59:59.000Z"), PyStr("2020-01-01"), PyStr("not-a-date") }

AttributeValues ==
  { NoAttributes,
    AttributeList(<<>>),
    AttributeList(<<Attr("S3Path", PyStr("/eodata/a"))>>),
    AttributeList(<<Attr("S3Path", PyStr(""))>>),
    AttributeList(<<Attr("S3Path", Missing)>>),
    AttributeList(<<Attr("productType", PyStr("S2MSI2A")), Attr("S3Path", PyStr("/eodata/a"))>>),
    AttributeList(<<Attr("S3Path", PyStr("/eodata/a")), Attr("S3Path", PyStr("/eodata/b"))>>),
    AttributeList(<<Attr("productType", PyStr("S2MSI2A"))>>) }

TopLevelPaths == { Missing, PyNone, PyStr("/eodata/top") }

RawProducts ==
  { [Name |-> PyStr(name), Start |-> start, Attributes |-> NoAttributes, S3Path |-> Missing] :
      name \in {"A", "B"}, start \in StartValues }
  \cup
  { [Name |-> PyStr("P"), Start |-> PyStr("2020-01-01T00:00:00.000Z"),
     Attributes |-> attrs, S3Path |-> top] :
      attrs \in AttributeValues, top \in TopLevelPaths }

RECURSIVE Lists(_)
Lists(n) ==
  IF n = 0 THEN {<<>>}
  ELSE Lists(n - 1) \cup
       {Append(l, r) : l \in {m \in Lists(n - 1) : Len(m) = n - 1}, r \in RawProducts}

InitNormalize ==
  /\ products \in Lists(MaxRecords)
  /\ product_list = [status |-> "none", value |-> <<>>]
  /\ npc = "input"
  /\ FilterIdle
  /\ FetchIdle

Normalize ==
  /\ npc = "input"
  /\ product_list' = extract_product_info(products)
  /\ npc' = "done"
  /\ UNCHANGED <<products, filterVars, fetchVars>>

NextNormalize == Normalize

SpecNormalize == InitNormalize /\ [][NextNormalize]_vars

(***************************************************************************)
(* Properties of build_odata_filter (SpecFilter)                           *)
(***************************************************************************)
TheConfig == PRODUCT_CONFIGS[config_key]

TileClauseText == "contains(Name,'" \o FormatStr(tile) \o "')"

\* C5: the filter contains the tile clause contains(Name,'<tile>') if and
\* only if the product config requires a tile and a non-empty tile was given
TileClauseConditional ==
  fpc = "built" =>
    (Contains(odata_filter, TileClauseText)
       <=> (TheConfig.requires_tile /\ Truthy(tile)))

TileClausePresent ==
  /\ fpc = "built"
  /\ TheConfig.requires_tile
  /\ tile = PyStr("T32TPS")
  /\ Contains(odata_filter, "contains(Name,'T32TPS')")

RECURSIVE JoinAnd(_)
JoinAnd(clauses) ==
  IF Len(clauses) = 1 THEN clauses[1]
  ELSE JoinAnd(SubSeq(clauses, 1, Len(clauses) - 1)) \o " and " \o clauses[Len(clauses)]

\* the clauses in the order the specification gives them
ClausesInOrder ==
  <<collection_filter(TheConfig)>>
  \o (IF TheConfig.collection = "SENTINEL-2"
      THEN <<type_filter(TheConfig)>>
           \o (IF Truthy(tile) THEN <<TileClauseText>> ELSE <<>>)
      ELSE <<instrument_filter(TheConfig), name_filter(TheConfig)>>)
  \o <<spatial_filter(bbox)>>
  \o <<"ContentDate/Start ge " \o start_date \o "T00:00:00.000Z",
       "ContentDate/Start le " \o end_date \o "T23:59:59.999Z">>

\* C9: the filter is the clauses collection, type/instrument (+ tile or
\* product-name clause), spatial, temporal, in that order, joined with
\* " and ", each clause occurring exactly once
ClauseOrder ==
  fpc = "built" =>
    /\ odata_filter = JoinAnd(ClausesInOrder)
    /\ \A i \in 1..Len(ClausesInOrder) :
         Occurrences(odata_filter, ClausesInOrder[i]) = 1
    /\ \A i \in 1..(Len(ClausesInOrder) - 1) :
         FindFrom(odata_filter, ClausesInOrder[i], 1)
           < FindFrom(odata_filter, ClausesInOrder[i + 1], 1)

ClauseOrderOtherBranch ==
  /\ fpc = "built"
  /\ TheConfig.collection = "SENTINEL-3"
  /\ Len(ClausesInOrder) = 6
  /\ FindFrom(odata_filter, "contains(Name,'OL_1_EFR___')", 1)
       < FindFrom(odata_filter, "OData.CSC.Intersects", 1)

(***************************************************************************)
(* Properties of search_products (Spec, FairSpec)                          *)
(***************************************************************************)
Capped == IntTruthy(max_products)
Returned == pc = "returned"

\* C1: with a cap K and fetched pages holding more than K records, the call
\* returns exactly the first K records of their concatenation
CapEnforcement ==
  (Returned /\ ~failed /\ Capped /\ Len(Served) > max_products.n) =>
    result = SubSeq(Served, 1, max_products.n)

\* the messages the claim expects for the pages that were fetched
ExpectedProgress ==
  <<"Found " \o ToString(page_sizes[1]) \o " products in initial query">>
  \o [i \in 1..(Len(page_sizes) - 1) |->
        "Fetching page " \o ToString(i + 1) \o "... (total so far: "
        \o ToString(Sum(SubSeq(page_sizes, 1, i))) \o ")"]

\* C2: without a cap, with a progress sink and no exception, the call returns
\* the concatenation of all N pages and emits the initial message followed
\* by one message per follow-up page, numbered 2..N, with the running total
PaginationCollection ==
  (Returned /\ ~failed /\ max_products = IntNone /\ has_callback) =>
    /\ result = Served
    /\ messages = ExpectedProgress
    /\ Len(messages) = Len(page_sizes)
    /\ \A i \in 1..(Len(response_links) - 1) : Truthy(response_links[i])
    /\ ~Truthy(response_links[Len(response_links)])

ThreePagesCollected ==
  /\ Returned /\ ~failed /\ max_products = IntNone /\ has_callback
  /\ Len(page_sizes) >= 3
  /\ Len(result) >= 3
  /\ Len(messages) >= 3

\* C3: the call never raises; when a request fails with an exception the
\* handler catches (connection error, timeout, bad status, malformed JSON),
\* first or later, it returns the empty list and the error message is the
\* last notification
FetchFailureHandling ==
  (request_failed /\ failed) =>
    /\ Returned
    /\ result = <<>>
    /\ has_callback =>
         /\ messages # <<>>
         /\ \E text \in ExceptionTexts :
              messages[Len(messages)] = "Error: " \o text

\* the claim's condition for another GET
ShouldFollowUp ==
  /\ pc = "loop"
  /\ next_link.tag = "str" /\ next_link.val # ""
  /\ (max_products = IntNone \/ Len(all_products) < max_products.n)

IssuesRequest == Len(request_log') = Len(request_log) + 1

\* the sink was called with the page announcement and raised: no GET follows
AnnouncementRaised ==
  /\ page_count' = page_count + 1
  /\ Len(messages') > Len(messages)
  /\ request_log' = request_log

\* C4 as stated: at the loop test a follow-up GET is issued exactly when a
\* next link is present and the cap is absent or not reached
FollowUpExactlyWhile ==
  [][pc = "loop" => (IssuesRequest <=> ShouldFollowUp)]_vars

\* C4 amended: at the loop test the loop body runs exactly when a next link
\* is present and the cap is absent or not reached, and it issues the
\* follow-up GET unless the sink raises on the page announcement; otherwise
\* the call returns what it accumulated, and it does eventually return
PaginationTermination ==
  /\ [][pc = "loop" =>
          /\ (IssuesRequest \/ AnnouncementRaised) <=> ShouldFollowUp
          /\ AnnouncementRaised => (has_callback /\ pc' \in {"returned", "raised"})
          /\ ~ShouldFollowUp => (pc' = "returned" /\ result' = all_products)]_vars
  /\ (pc = "loop" /\ ~ShouldFollowUp) ~> Returned

StoppedAtCapWithLinkLeft ==
  /\ Returned /\ ~failed /\ Capped
  /\ Truthy(next_link)
  /\ Len(all_products) >= max_products.n
  /\ Len(request_log) >= 2

FirstPageSize == IF page_sizes = <<>> THEN 0 ELSE page_sizes[1]

\* requests sent and not yet answered
Outstanding ==
  Len(request_log) - Len(response_links) - (IF request_failed THEN 1 ELSE 0)

\* C10: with a cap K the accumulated count never exceeds max(K, size of the
\* first page), no request is issued once the count is >= K, every follow-up
\* request targets the next link of the response just before it, and at most
\* one request is outstanding
CappedFetchInvariant ==
  Capped =>
    /\ Len(all_products) <= Max(max_products.n, FirstPageSize)
    /\ \A i \in 1..Len(totals_at_request) : totals_at_request[i] < max_products.n
    /\ Len(totals_at_request) = Len(request_log) - (IF request_log = <<>> THEN 0 ELSE 1)
    /\ \A i \in 2..Len(request_log) :
         /\ i - 1 <= Len(response_links)
         /\ response_links[i - 1] = PyStr(request_log[i])
    /\ Outstanding \in {0, 1}
    /\ Outstanding = 1 <=> pc \in {"first_get", "page_get"}

FollowUpPageTruncated ==
  /\ Returned /\ ~failed /\ Capped
  /\ Len(request_log) >= 3
  /\ Len(all_products) = max_products.n
  /\ Sum(page_sizes) > max_products.n
  /\ FirstPageSize < max_products.n

(***************************************************************************)
(* Properties of extract_product_info (SpecNormalize)                      *)
(***************************************************************************)
Out == product_list.value

StartAbsent(r) == ~Truthy(StartStr(r))
StartParses(r) == Truthy(StartStr(r)) /\ fromisoformat(ReplaceZ(StartStr(r).val)).ok
StartUnparsable(r) == Truthy(StartStr(r)) /\ ~fromisoformat(ReplaceZ(StartStr(r).val)).ok
StartAware(r) == StartParses(r) /\ fromisoformat(ReplaceZ(StartStr(r).val)).aware

\* C6: one summary per record, ascending by timestamp, every record without
\* a timestamp before every record with one
NullTimestampSortFirst ==
  (npc = "done" /\ \A i \in 1..Len(products) : ~StartUnparsable(products[i])) =>
    /\ product_list.status = "ok"
    /\ Len(Out) = Len(products)
    /\ \A i, j \in 1..Len(Out) :
         i < j => ~Less(SortKey(Out[j]), SortKey(Out[i]))
    /\ \A i, j \in 1..Len(Out) :
         (Out[i].acquisition_date.isNone /\ ~Out[j].acquisition_date.isNone) => i < j

\* C7: a record whose timestamp is absent or unparsable does not make the
\* call fail; it is kept, with a null timestamp (batches without
\* timezone-aware timestamps, which the sort cannot reject)
MissingTimestampTolerated ==
  (npc = "done" /\ \A i \in 1..Len(products) : ~StartAware(products[i])) =>
    /\ product_list.status = "ok"
    /\ Len(Out) = Len(products)
    /\ \A i \in 1..Len(products) :
         (StartAbsent(products[i]) \/ StartUnparsable(products[i])) =>
           \E j \in 1..Len(Out) :
             /\ Out[j].product_name = Get(products[i].Name, PyStr(""))
             /\ Out[j].datetime = StartStr(products[i])
             /\ Out[j].acquisition_date.isNone

\* the first attribute-list entry named S3Path, 0 if none is found
S3Entry(r) ==
  IF r.Attributes.present THEN FirstS3Path(r.Attributes.items, 1) ELSE 0
S3EntryValue(r) == Get(r.Attributes.items[S3Entry(r)].Value, PyNone)

\* the path the claim gives: the entry's value whenever an entry is found
ClaimedPath(r) ==
  IF S3Entry(r) # 0 THEN S3EntryValue(r)
  ELSE IF r.S3Path.tag # "missing" THEN r.S3Path
  ELSE PyNone

\* the path of the amended claim: the entry's value only when it is non-empty
ResolvedPath(r) ==
  IF S3Entry(r) # 0 /\ S3EntryValue(r).tag = "str" /\ S3EntryValue(r).val # ""
  THEN S3EntryValue(r)
  ELSE IF r.S3Path.tag # "missing" THEN r.S3Path
  ELSE IF S3Entry(r) # 0 THEN S3EntryValue(r)
  ELSE PyNone

Bijections(n) ==
  {f \in [1..n -> 1..n] : \A i, j \in 1..n : f[i] = f[j] => i = j}

\* the summaries are those of the records, one each, with these paths
SummariesHavePaths(path(_)) ==
  /\ Len(Out) = Len(products)
  /\ \E f \in Bijections(Len(products)) :
       \A i \in 1..Len(products) :
         /\ Out[f[i]].product_name = Get(products[i].Name, PyStr(""))
         /\ Out[f[i]].datetime = StartStr(products[i])
         /\ Out[f[i]].s3_path = path(products[i])

\* C8 as stated: the S3Path attribute's value if such an entry is found,
\* else the top-level S3Path field if present, else null
StoragePathPrecedence ==
  (npc = "done" /\ product_list.status = "ok") => SummariesHavePaths(ClaimedPath)

\* C8 amended: the S3Path attribute's value if such an entry is found with a
\* non-empty value, else the top-level S3Path field if present, else the
\* found entry's empty or null value, else null
StoragePathResolution ==
  (npc = "done" /\ product_list.status = "ok") => SummariesHavePaths(ResolvedPath)

AttributeWinsOverTopLevel ==
  /\ npc = "done" /\ product_list.status = "ok"
  /\ \E i \in 1..Len(products) :
       /\ S3Entry(products[i]) # 0
       /\ S3EntryValue(products[i]) = PyStr("/eodata/a")
       /\ products[i].S3Path = PyStr("/eodata/top")
  /\ \E j \in 1..Len(Out) : Out[j].s3_path = PyStr("/eodata/a")
  /\ \A j \in 1..Len(Out) : Out[j].s3_path # PyStr("/eodata/top")

====
